---- MODULE Spec2Model ----
(***************************************************************************)
(* LSB audio steganography (audio_steg): the capacity arithmetic, the      *)
(* fit-to-budget resizer, and the embed / extract codec with its 12-byte   *)
(* header.  A WAV file is its sample width, channel count and flat sample  *)
(* list; an image file is its width, height and RGB bytes.                 *)
(*                                                                         *)
(* Python integers are unbounded.  The model keeps every value exact       *)
(* except a decoded header field at or above 2^31 - 1, which is held as    *)
(* 2^31 - 1 (see Unpack32); every comparison extract_image makes with it   *)
(* has the same outcome, since sample counts and width*height*3 of a       *)
(* validated header stay far below that value.                             *)
(***************************************************************************)
EXTENDS Integers, Sequences, FiniteSets, TLC

\* ------------------------------------------------------------ bounds
\* Image sides of the input images range over 1..MaxDim.
MaxDim == 2
\* Pixel contents are drawn from the byte patterns 0..MaxFill.
MaxFill == 1
\* Byte budgets given to steg resize -b range over -1..MaxBudget.
MaxBudget == 6

\* ------------------------------------------------- program constants
HEADER_BYTES == 12
HEADER_BITS == 96
MAX_DIMENSION == 10000
BYTES_PER_PIXEL == 3

\* The largest integer the model checker holds: 2^31 - 1.
IntMax == (1073741824 - 1) + 1073741824

Min(a, b) == IF a <= b THEN a ELSE b

\* ------------------------------------------------------ Python idioms
\* int(a / b) for b > 0: truncation toward zero of the quotient.
IntDiv(a, b) == IF a >= 0 THEN a \div b ELSE -((-a) \div b)

\* sample & 1 on a Python int (two's complement of unbounded width).
LsbOf(v) == v % 2

\* samples[i] | 1 and samples[i] & ~1.
SetLsbMutant(v, bit) ==
    IF bit = 1
    THEN (IF v % 2 = 1 THEN v ELSE v + 1)
    ELSE (IF v % 2 = 1 THEN (IF v < 0 THEN v + 1 ELSE v - 1) ELSE v)
SetLsb(v, bit) ==
    IF bit = 1
    THEN (IF v % 2 = 1 THEN v ELSE v + 1)
    ELSE (IF v % 2 = 1 THEN v - 1 ELSE v)

\* (byte >> bit_position) & 1
BitOfByte(byte, pos) == (byte \div (2 ^ pos)) % 2

\* struct range of one sample: 'B' is unsigned 8-bit, 'h' and 'i' are signed.
SampleMin(sampwidth) ==
    CASE sampwidth = 1 -> 0
      [] sampwidth = 2 -> -32768
      [] sampwidth = 4 -> -IntMax - 1
SampleMax(sampwidth) ==
    CASE sampwidth = 1 -> 255
      [] sampwidth = 2 -> 32767
      [] sampwidth = 4 -> IntMax

\* struct.pack(fmt, *samples) accepts the list iff every sample is in range.
PackableSamples(sampwidth, s) ==
    \A i \in 1..Len(s) : s[i] >= SampleMin(sampwidth) /\ s[i] <= SampleMax(sampwidth)

\* ------------------------------------------------------- header codec
\* struct.pack('<I', v): four bytes, least significant first.
Pack32(v) == [k \in 1..4 |-> (v \div (256 ^ (k - 1))) % 256]

\* struct.pack('<III', width, height, img_size)
PackHeaderMutant(width, height, img_size) == Pack32(height) \o Pack32(width) \o Pack32(img_size)
PackHeader(width, height, img_size) == Pack32(width) \o Pack32(height) \o Pack32(img_size)

\* One field of struct.unpack('<III', ...); a value of 2^31 - 1 or more is held
\* as 2^31 - 1.
Unpack32(b) ==
    IF b[4] >= 128
    THEN IntMax
    ELSE b[1] + 256 * b[2] + 65536 * b[3] + 16777216 * b[4]

UnpackHeader(b) ==
    [width    |-> Unpack32(SubSeq(b, 1, 4)),
     height   |-> Unpack32(SubSeq(b, 5, 8)),
     img_size |-> Unpack32(SubSeq(b, 9, 12))]

\* The unsigned 32-bit value of one '<I' field in full, as two 16-bit halves:
\* the value is hi * 65536 + lo, so every value up to 2^32 - 1 is held exactly.
Unpack32Halves(b) == [hi |-> b[3] + 256 * b[4], lo |-> b[1] + 256 * b[2]]

\* struct.pack('<I', hi * 65536 + lo)
Pack32Halves(x) == <<x.lo % 256, x.lo \div 256, x.hi % 256, x.hi \div 256>>

\* byte |= (bits[i + j] << j) for j in range(8), for each byte of the run.
\* bits is the list of LSBs read; a trailing partial byte is zero-filled.
BitsToBytes(bits) ==
    [k \in 1..((Len(bits) + 7) \div 8) |->
        LET B(j) == IF 8 * (k - 1) + j + 1 <= Len(bits) THEN bits[8 * (k - 1) + j + 1] ELSE 0
        IN  B(0) + B(1) * 2 + B(2) * 4 + B(3) * 8
            + B(4) * 16 + B(5) * 32 + B(6) * 64 + B(7) * 128]

\* ------------------------------------------------- capacity calculator
\* capacity_bytes = (samples // 8) - 12
CapacityBytesMutant(total_samples) == (total_samples \div 8) - HEADER_BYTES + 1
CapacityBytes(total_samples) == (total_samples \div 8) - HEADER_BYTES

\* get_audio_capacity: samples = n_frames * n_channels.
GetAudioCapacity(w) ==
    LET n_frames == Len(w.samples) \div w.nchannels
        total    == n_frames * w.nchannels
    IN  [kind |-> "ok", samples |-> total, capacity_bytes |-> CapacityBytes(total)]

\* --------------------------------------------------------- fit resizer
\* An image file: width, height and width*height*3 RGB bytes.
\* Pixel pattern `fill`: the bytes an image of that size is filled with.
PixelByte(fill, i) == IF fill = 0 THEN 255 ELSE (fill * i * 77 + fill - 1) % 256
PixelBytes(width, height, fill) ==
    [i \in 1..(width * height * BYTES_PER_PIXEL) |-> PixelByte(fill, i)]
MakeImage(width, height, fill) ==
    [width |-> width, height |-> height, bytes |-> PixelBytes(width, height, fill)]

\* orig_size = orig_width * orig_height * 3
OrigSize(width, height) == width * height * BYTES_PER_PIXEL

\* if orig_size <= max_bytes: the image is returned as it is.
AlreadyFitsMutant(width, height, max_bytes) == width * height <= max_bytes
AlreadyFitsStrict(width, height, max_bytes) == width * height * BYTES_PER_PIXEL < max_bytes
AlreadyFits(width, height, max_bytes) == OrigSize(width, height) <= max_bytes

\* int(math.sqrt(max_pixels / aspect_ratio)) with aspect_ratio = width / height,
\* for max_pixels >= 0: the largest k with k*k <= max_pixels * height / width.
\* (On the sizes of this model the IEEE double computation gives the same
\* integers as the exact quotient.)
FloorSqrtRatio(max_pixels, width, height) ==
    CHOOSE k \in 0..(max_pixels * height) :
        /\ k * k * width <= max_pixels * height
        /\ (k + 1) * (k + 1) * width > max_pixels * height

\* while (new_width * new_height * 3) > max_bytes:
\*     new_width -= 1; new_height = int(new_width / aspect_ratio)
\* A run that takes new_width below zero with the condition still true never
\* ends (both sides stay <= 0, so the product stays >= 0 > max_bytes); the
\* unfolding stops there and a negative new_width in the result stands for it.
RECURSIVE ShrinkLoop(_, _, _, _, _)
ShrinkLoop(new_width, new_height, width, height, max_bytes) ==
    IF new_width * new_height * BYTES_PER_PIXEL > max_bytes /\ new_width >= 0
    THEN ShrinkLoop(new_width - 1, IntDiv((new_width - 1) * height, width),
                    width, height, max_bytes)
    ELSE <<new_width, new_height>>

\* The target dimensions computed for an image that does not fit:
\* kind "error" when a division by zero is met (orig_width / orig_height
\* of a zero-height image, max_pixels / aspect_ratio of a zero-width one)
\* or math.sqrt is given a negative number (max_bytes < 0), else kind
\* "target" with the pair handed to Image.resize.
TargetDimsMutant(width, height, max_bytes) ==
    LET max_pixels == max_bytes \div BYTES_PER_PIXEL
    IN  IF height = 0 \/ width = 0
        THEN [kind |-> "error", exc |-> "ZeroDivisionError", site |-> "aspect_ratio",
              dims |-> <<0, 0>>]
        ELSE LET new_height == FloorSqrtRatio(IF max_pixels < 0 THEN 0 ELSE max_pixels,
                                              width, height)
                 new_width  == IntDiv(new_height * width, height)
             IN  [kind |-> "target", exc |-> "", site |-> "",
                  dims |-> ShrinkLoop(new_width, new_height, width, height, max_bytes)]
TargetDims(width, height, max_bytes) ==
    LET max_pixels == max_bytes \div BYTES_PER_PIXEL
    IN  IF height = 0 \/ width = 0
        THEN [kind |-> "error", exc |-> "ZeroDivisionError", site |-> "aspect_ratio",
              dims |-> <<0, 0>>]
        ELSE IF max_pixels < 0
        THEN [kind |-> "error", exc |-> "ValueError", site |-> "math.sqrt",
              dims |-> <<0, 0>>]
        ELSE LET new_height == FloorSqrtRatio(max_pixels, width, height)
                 new_width  == IntDiv(new_height * width, height)
             IN  [kind |-> "target", exc |-> "", site |-> "",
                  dims |-> ShrinkLoop(new_width, new_height, width, height, max_bytes)]

\* Image.resize((new_width, new_height), LANCZOS) belongs to the imaging
\* library.  A size with both sides >= 1 yields an image of that size whose
\* pixels (pattern `fill`) are the library's; for a side < 1 the repository
\* makes no check of its own, and the library either rejects the size
\* (lib_rejects) or returns an empty image of that size.
LibResize(dims, fill, lib_rejects) ==
    IF dims[1] >= 1 /\ dims[2] >= 1
    THEN [kind |-> "ok", image |-> MakeImage(dims[1], dims[2], fill)]
    ELSE IF lib_rejects
         THEN [kind |-> "error", image |-> MakeImage(0, 0, 0)]
         ELSE [kind |-> "ok",
               image |-> [width |-> dims[1], height |-> dims[2], bytes |-> <<>>]]

NoError == [exc |-> "", site |-> ""]

\* resize_image_obj(img, max_bytes) and the body of resize_image_for_audio
\* share this computation: the fitted image, or the error raised.
FitImage(img, max_bytes, fill, lib_rejects) ==
    IF AlreadyFits(img.width, img.height, max_bytes)
    THEN [kind |-> "ok", resized |-> FALSE, image |-> img, err |-> NoError,
          max_bytes |-> max_bytes,
          original_size |-> <<img.width, img.height>>,
          final_size |-> <<img.width, img.height>>]
    ELSE LET t == TargetDims(img.width, img.height, max_bytes)
         IN  IF t.kind = "error"
             THEN [kind |-> "error", resized |-> FALSE, image |-> img,
                   err |-> [exc |-> t.exc, site |-> t.site],
                   max_bytes |-> max_bytes,
                   original_size |-> <<img.width, img.height>>,
                   final_size |-> t.dims]
             ELSE LET r == LibResize(t.dims, fill, lib_rejects)
                  IN  IF r.kind = "error"
                      THEN [kind |-> "error", resized |-> FALSE, image |-> img,
                            err |-> [exc |-> "ValueError", site |-> "Image.resize"],
                            max_bytes |-> max_bytes,
                            original_size |-> <<img.width, img.height>>,
                            final_size |-> t.dims]
                      ELSE [kind |-> "ok", resized |-> TRUE, image |-> r.image,
                            err |-> NoError,
                            max_bytes |-> max_bytes,
                            original_size |-> <<img.width, img.height>>,
                            final_size |-> t.dims]

\* ----------------------------------------------------------- LSB codec
SupportedWidth(sampwidth) == sampwidth \in {1, 2, 4}

\* total_bits = len(total_data) * 8
TotalBits(total_data) == Len(total_data) * 8

\* if total_bits > len(samples): the image does not fit.
TooLargeMutant(total_bits, n_samples) == total_bits >= n_samples
TooLarge(total_bits, n_samples) == total_bits > n_samples

\* available_bytes = (len(samples) // 8) - 12
AvailableBytesMutant(n_samples) == n_samples \div 8
AvailableBytes(n_samples) == (n_samples \div 8) - HEADER_BYTES

\* Bit number i (from 0) of total_data, in the order the loops visit them:
\* byte by byte, bit_position 0..7 within each byte.
DataBitMutant(total_data, i) == BitOfByte(total_data[(i \div 8) + 1], 7 - (i % 8))
DataBit(total_data, i) == BitOfByte(total_data[(i \div 8) + 1], i % 8)

\* The embedding loop over a list of n samples: sample bit_index gets the
\* LSB DataBit(total_data, bit_index); a bit_index >= n raises IndexError
\* after the n samples before it were written.
EmbedLoop(samples, total_data) ==
    LET n    == Len(samples)
        bits == TotalBits(total_data)
        done == Min(bits, n)
    IN  [raised  |-> bits > n,
         written |-> done,
         samples |-> [i \in 1..n |->
                        IF i <= done
                        THEN SetLsb(samples[i], DataBit(total_data, i - 1))
                        ELSE samples[i]]]

NoImage == [width |-> 0, height |-> 0, bytes |-> <<>>]

HideError(exc, site, img, total_bits) ==
    [kind |-> "error", err |-> [exc |-> exc, site |-> site], image |-> img,
     total_bits |-> total_bits, resized |-> FALSE, written |-> 0, out |-> <<>>]

\* hide_image from the point the image is known to the point the output file
\* is written: the capacity check, the auto-resize branch, the embedding
\* loop, struct.pack of the result.
HideEmbed(wav, img, total_bits, resized) ==
    LET n          == Len(wav.samples)
        total_data == PackHeader(img.width, img.height, Len(img.bytes)) \o img.bytes
        loop       == EmbedLoop(wav.samples, total_data)
    IN  IF n = 0
        THEN HideError("ZeroDivisionError", "capacity_usage", img, total_bits)
        ELSE IF loop.raised
        THEN [kind |-> "error", err |-> [exc |-> "IndexError", site |-> "samples[bit_index]"],
              image |-> img, total_bits |-> total_bits, resized |-> resized,
              written |-> loop.written, out |-> <<>>]
        ELSE IF ~PackableSamples(wav.sampwidth, loop.samples)
        THEN [kind |-> "error", err |-> [exc |-> "struct.error", site |-> "struct.pack"],
              image |-> img, total_bits |-> total_bits, resized |-> resized,
              written |-> loop.written, out |-> <<>>]
        ELSE [kind |-> "ok", err |-> NoError, image |-> img,
              total_bits |-> total_bits, resized |-> resized,
              written |-> loop.written, out |-> loop.samples]

HideImage(wav, img, auto_resize, fill, lib_rejects) ==
    LET n          == Len(wav.samples)
        total_bits == TotalBits(PackHeader(img.width, img.height, Len(img.bytes)) \o img.bytes)
    IN  IF ~SupportedWidth(wav.sampwidth)
        THEN HideError("ValueError", "sampwidth", img, 0)
        ELSE IF TooLarge(total_bits, n)
        THEN IF auto_resize
             THEN LET fit == FitImage(img, AvailableBytes(n), fill, lib_rejects)
                  IN  IF fit.kind = "error"
                      THEN HideError(fit.err.exc, fit.err.site, img, total_bits)
                      ELSE HideEmbed(wav, fit.image,
                               TotalBits(PackHeader(fit.image.width, fit.image.height,
                                                    Len(fit.image.bytes)) \o fit.image.bytes),
                               fit.resized)
             ELSE HideError("ValueError", "capacity_check", img, total_bits)
        ELSE HideEmbed(wav, img, total_bits, FALSE)

\* for i in range(lo, hi): bit = samples[i] & 1.  An index >= len(samples)
\* raises IndexError; `bits` are the LSBs read before that.
ReadBits(samples, lo, hi) ==
    LET n    == Len(samples)
        stop == IF hi <= n THEN hi ELSE (IF lo <= n THEN n ELSE lo)
    IN  [raised |-> hi > n /\ hi > lo,
         first  |-> lo,
         last   |-> stop - 1,
         bits   |-> [i \in 1..(stop - lo) |-> LsbOf(samples[lo + i])]]

\* width <= 0 or height <= 0 or img_size <= 0
HeaderEmpty(h) == h.width <= 0 \/ h.height <= 0 \/ h.img_size <= 0

\* width > 10000 or height > 10000
HeaderUnrealisticMutant(h) == h.width >= MAX_DIMENSION \/ h.height >= MAX_DIMENSION
HeaderUnrealistic(h) == h.width > MAX_DIMENSION \/ h.height > MAX_DIMENSION

\* total_bits = img_size * 8 (held as 2^31 - 1 - 96 when it is larger)
PayloadBits(img_size) ==
    IF img_size > (IntMax - HEADER_BITS) \div 8
    THEN IntMax - HEADER_BITS
    ELSE img_size * 8

\* if bit_offset + total_bits > len(samples): not enough samples.
TruncatedMutant(bit_offset, total_bits, n_samples) == bit_offset + total_bits >= n_samples
Truncated(bit_offset, total_bits, n_samples) == bit_offset + total_bits > n_samples

\* Image.frombytes('RGB', (width, height), data) belongs to the imaging
\* library: it needs width*height*3 bytes.  Fewer bytes are rejected
\* ("not enough image data"); surplus bytes are either ignored or rejected
\* (lib_rejects), as the library decides.
LibFromBytes(width, height, data, lib_rejects) ==
    LET need == width * height * BYTES_PER_PIXEL
    IN  IF Len(data) < need \/ (Len(data) > need /\ lib_rejects)
        THEN [kind |-> "error", image |-> NoImage]
        ELSE [kind |-> "ok",
              image |-> [width |-> width, height |-> height,
                         bytes |-> SubSeq(data, 1, need)]]

NoHeader == [width |-> 0, height |-> 0, img_size |-> 0]
NoReads == [first |-> 0, last |-> -1]

ExtractError(exc, site, h, mismatch, header_reads, payload_reads) ==
    [kind |-> "error", err |-> [exc |-> exc, site |-> site], header |-> h,
     mismatch |-> mismatch, header_reads |-> header_reads,
     payload_reads |-> payload_reads, data |-> <<>>, image |-> NoImage]

\* extract_image from the unpacked sample list to the saved image.
ExtractImage(wav, lib_rejects) ==
    IF ~SupportedWidth(wav.sampwidth)
    THEN ExtractError("ValueError", "sampwidth", NoHeader, FALSE, NoReads, NoReads)
    ELSE
    LET samples == wav.samples
        n       == Len(samples)
        hread   == ReadBits(samples, 0, HEADER_BITS)
        hreads  == [first |-> hread.first, last |-> hread.last]
    IN  IF hread.raised
        THEN ExtractError("IndexError", "samples[i]", NoHeader, FALSE, hreads, NoReads)
        ELSE
        LET h          == UnpackHeader(BitsToBytes(hread.bits))
            mismatch   == h.img_size # h.width * h.height * BYTES_PER_PIXEL
            total_bits == PayloadBits(h.img_size)
            bit_offset == HEADER_BITS
        IN  IF HeaderEmpty(h)
            THEN ExtractError("ValueError", "CorruptHeader", h, FALSE, hreads, NoReads)
            ELSE IF HeaderUnrealistic(h)
            THEN ExtractError("ValueError", "CorruptHeader", h, FALSE, hreads, NoReads)
            ELSE IF Truncated(bit_offset, total_bits, n)
            THEN ExtractError("ValueError", "TruncatedStream", h, mismatch, hreads, NoReads)
            ELSE
            LET pread  == ReadBits(samples, bit_offset, bit_offset + total_bits)
                preads == [first |-> pread.first, last |-> pread.last]
            IN  IF pread.raised
                THEN ExtractError("IndexError", "samples[i]", h, mismatch, hreads, preads)
                ELSE
                LET data == SubSeq(BitsToBytes(pread.bits), 1, h.img_size)
                    made == LibFromBytes(h.width, h.height, data, lib_rejects)
                IN  IF made.kind = "error"
                    THEN ExtractError("ValueError", "Image.frombytes", h, mismatch,
                                      hreads, preads)
                    ELSE [kind |-> "ok", err |-> NoError, header |-> h,
                          mismatch |-> mismatch, header_reads |-> hreads,
                          payload_reads |-> preads, data |-> data,
                          image |-> made.image]

\* ------------------------------------------------------------- inputs
Dims == 1..MaxDim
Fills == 0..MaxFill
InputImages == { MakeImage(w, h, f) : w \in Dims, h \in Dims, f \in Fills }

\* Bits needed by an image of the given size: (12 + width*height*3) * 8.
ImageBits(width, height) == (HEADER_BYTES + width * height * BYTES_PER_PIXEL) * 8

\* Carrier audio: sample width, channel count and the value of sample i.
CarrierWidth(c) == CASE c = 1 -> 1 [] c = 2 -> 2 [] c = 3 -> 2
                     [] c = 4 -> 4 [] c = 5 -> 2 [] c = 6 -> 3
CarrierChannels(c) == IF c = 2 THEN 2 ELSE 1
CarrierSample(c, i) ==
    CASE c = 1 -> (i * 7) % 256
      [] c = 2 -> IF i % 2 = 1 THEN -32768 ELSE 32767
      [] c = 3 -> 0
      [] c = 4 -> IF i % 2 = 1 THEN IntMax ELSE -IntMax - 1
      [] c = 5 -> -1 - (i % 3)
      [] c = 6 -> 0

\* Sample counts: none, just short of a header, a bare header, budgets of
\* 1 and 2 bytes, and the neighbourhood of every exact fit.
SampleCounts ==
    {0, HEADER_BITS - 1, HEADER_BITS, HEADER_BITS + 8, HEADER_BITS + 16}
    \cup { ImageBits(w, h) + d : w \in Dims, h \in Dims, d \in {-1, 0, 1} }

CarrierWav(c, n) ==
    [sampwidth |-> CarrierWidth(c), nchannels |-> CarrierChannels(c),
     samples |-> [i \in 1..n |-> CarrierSample(c, i)]]

\* Audio whose LSBs spell a given header followed by pattern bytes: 16-bit
\* mono samples, each an even value plus the bit it carries.
PlantedHeaders ==
    { <<0, 1, 3>>, <<1, 0, 3>>, <<1, 1, 0>>, <<10001, 1, 3>>, <<1, 10001, 3>>,
      <<10000, 1, 3>>, <<1, 1, 3>>, <<1, 1, 6>>, <<1, 2, 3>>, <<1, 1, 1>> }
PlantedWav(hdr, fill, d) ==
    LET data == PackHeader(hdr[1], hdr[2], hdr[3]) \o [i \in 1..hdr[3] |-> PixelByte(fill, i)]
        n    == Len(data) * 8 + d
    IN  [sampwidth |-> 2, nchannels |-> 1,
         samples |-> [i \in 1..n |->
                        2 * ((i * 5) % 100) - 100
                        + (IF i <= Len(data) * 8 THEN DataBit(data, i - 1) ELSE i % 2)]]

\* Carriers 1, 2 and 4 meet every sample count and image; the all-zero, the
\* all-negative and the 24-bit carrier meet a bare header and a 1x1 fit.
CountsFor(c) == { m \in SampleCounts : m % CarrierChannels(c) = 0 }
PlainInputs ==
    UNION { { <<CarrierWav(c, n), im>> : n \in CountsFor(c), im \in InputImages } :
            c \in {1, 2, 4} }
AuxInputs ==
    { <<CarrierWav(c, n), MakeImage(1, 1, 0)>> :
        c \in {3, 5, 6}, n \in {HEADER_BITS, ImageBits(1, 1)} }
PlantedInputs ==
    { <<PlantedWav(hdr, f, d), MakeImage(1, 1, f)>> :
        hdr \in PlantedHeaders, f \in Fills, d \in {-1, 0, 1} }

\* max_bytes given on the command line.
Budgets == (-1)..MaxBudget

\* ------------------------------------------------------ compare_images
\* list(img.getdata()) of an RGB image: one (r, g, b) tuple per pixel.
Pixels(im) ==
    [p \in 1..(im.width * im.height) |-> SubSeq(im.bytes, 3 * p - 2, 3 * p)]

\* differences = sum(1 for p1, p2 in zip(pixels1, pixels2) if p1 != p2)
DifferencesMutant(pixels1, pixels2) ==
    Cardinality({q \in (1..Min(Len(pixels1), Len(pixels2))) \X (1..3) :
                    pixels1[q[1]][q[2]] # pixels2[q[1]][q[2]]})
Differences(pixels1, pixels2) ==
    Cardinality({p \in 1..Min(Len(pixels1), Len(pixels2)) : pixels1[p] # pixels2[p]})

\* similarity = ((total_pixels - differences) / total_pixels) * 100, held as
\* the exact ratio num / den.
Similarity(total_pixels, differences) ==
    [num |-> (total_pixels - differences) * 100, den |-> total_pixels]

\* The literals 0.0 and 100.0 as ratios.
Percent(v) == [num |-> v, den |-> 1]

\* compare_images on two image files that exist.
CompareImages(img1, img2) ==
    IF <<img1.width, img1.height>> # <<img2.width, img2.height>>
    THEN [kind |-> "ok", identical |-> FALSE, similarity |-> Percent(0),
          reason |-> "Different dimensions", different_pixels |-> 0, total_pixels |-> 0]
    ELSE LET pixels1 == Pixels(img1)
             pixels2 == Pixels(img2)
         IN  IF pixels1 = pixels2
             THEN [kind |-> "ok", identical |-> TRUE, similarity |-> Percent(100),
                   reason |-> "", different_pixels |-> 0, total_pixels |-> Len(pixels1)]
             ELSE [kind |-> "ok", identical |-> FALSE,
                   similarity |-> Similarity(Len(pixels1), Differences(pixels1, pixels2)),
                   reason |-> "",
                   different_pixels |-> Differences(pixels1, pixels2),
                   total_pixels |-> Len(pixels1)]

\* An edited copy of an image file: the bytes at the positions K have their
\* lowest bit flipped.
EditedCopy(im, K) ==
    [im EXCEPT !.bytes = [k \in 1..Len(im.bytes) |->
                            IF k \in K
                            THEN (IF im.bytes[k] % 2 = 0 THEN im.bytes[k] + 1
                                                         ELSE im.bytes[k] - 1)
                            ELSE im.bytes[k]]]

\* The second files steg compare is run on: the extracted image itself and
\* copies of it with the first or the last channel byte, two bytes of the
\* first pixel, or one byte of the first and of the last pixel changed.
CompareInputs(im) ==
    LET n == Len(im.bytes)
    IN  {im} \cup {EditedCopy(im, K) : K \in {{1}, {n}, {1, 2}, {1, n}}}

\* -------------------------------------------------------------- state
VARIABLES
    wav,       \* the input WAV file
    img,       \* the image file the next command works on
    stego,     \* the output WAV file of hide_image
    capRes,    \* result of get_audio_capacity
    fitRes,    \* result of the first resize_image_for_audio
    refitRes,  \* result of resize_image_for_audio run again on its own output
    hideRes,   \* result of hide_image
    extRes,    \* result of extract_image
    extSrc,    \* which file extract_image read: "wav" or "stego"
    cmpImg,    \* the second image file given to compare_images
    cmpRes,    \* result of compare_images
    pc         \* the command that ran last

vars == <<wav, img, stego, capRes, fitRes, refitRes, hideRes, extRes, extSrc,
          cmpImg, cmpRes, pc>>

NoRes == [kind |-> "none"]
NoWav == [sampwidth |-> 2, nchannels |-> 1, samples |-> <<>>]

Init ==
    /\ \E inp \in PlainInputs \cup AuxInputs \cup PlantedInputs :
          /\ wav = inp[1]
          /\ img = inp[2]
    /\ stego = NoWav
    /\ capRes = NoRes
    /\ fitRes = NoRes
    /\ refitRes = NoRes
    /\ hideRes = NoRes
    /\ extRes = NoRes
    /\ extSrc = "none"
    /\ cmpImg = NoImage
    /\ cmpRes = NoRes
    /\ pc = "init"

\* The library's choices that can matter to FitImage(img, max_bytes, ...):
\* none when the image already fits or math.sqrt raises, the pixel pattern
\* when the target size is valid, acceptance or rejection when it is not.
LibChoices(im, max_bytes) ==
    IF AlreadyFits(im.width, im.height, max_bytes)
    THEN {<<0, FALSE>>}
    ELSE LET t == TargetDims(im.width, im.height, max_bytes)
         IN  IF t.kind = "error" THEN {<<0, FALSE>>}
             ELSE IF t.dims[1] >= 1 /\ t.dims[2] >= 1
                  THEN Fills \X {FALSE}
                  ELSE {0} \X BOOLEAN

\* steg capacity: get_audio_capacity(wav_path)
Capacity ==
    /\ pc = "init"
    /\ capRes' = GetAudioCapacity(wav)
    /\ pc' = "capacity"
    /\ UNCHANGED <<wav, img, stego, fitRes, refitRes, hideRes, extRes, extSrc, cmpImg, cmpRes>>

\* steg resize -b: resize_image_for_audio(image, output, max_bytes=...);
\* the output file becomes the image of the commands that follow.
ResizeBytes ==
    /\ pc = "init"
    /\ \E max_bytes \in Budgets :
       \E lib \in LibChoices(img, max_bytes) :
          LET r == FitImage(img, max_bytes, lib[1], lib[2])
          IN  /\ fitRes' = r
              /\ img' = IF r.kind = "ok" THEN r.image ELSE img
              /\ pc' = IF r.kind = "ok" THEN "fitted_bytes" ELSE "fit_failed"
    /\ UNCHANGED <<wav, stego, capRes, refitRes, hideRes, extRes, extSrc, cmpImg, cmpRes>>

\* steg resize -a: resize_image_for_audio(image, output, wav_path=...):
\* max_bytes is the capacity_bytes of get_audio_capacity(wav_path).
ResizeAudio ==
    /\ pc = "init"
    /\ LET max_bytes == GetAudioCapacity(wav).capacity_bytes
       IN  \E lib \in LibChoices(img, max_bytes) :
              LET r == FitImage(img, max_bytes, lib[1], lib[2])
              IN  /\ fitRes' = r
                  /\ img' = IF r.kind = "ok" THEN r.image ELSE img
                  /\ pc' = IF r.kind = "ok" THEN "fitted" ELSE "fit_failed"
    /\ UNCHANGED <<wav, stego, capRes, refitRes, hideRes, extRes, extSrc, cmpImg, cmpRes>>

\* steg resize again, on the output of the first run, with the same budget.
Refit ==
    /\ pc \in {"fitted", "fitted_bytes"}
    /\ \E lib \in LibChoices(img, fitRes.max_bytes) :
          LET r == FitImage(img, fitRes.max_bytes, lib[1], lib[2])
          IN  /\ refitRes' = r
              /\ img' = IF r.kind = "ok" THEN r.image ELSE img
              /\ pc' = IF r.kind = "ok" THEN "refitted" ELSE "fit_failed"
    /\ UNCHANGED <<wav, stego, capRes, fitRes, hideRes, extRes, extSrc, cmpImg, cmpRes>>

\* steg hide [-r]: hide_image(wav, image, output, auto_resize), on the
\* input image or on the image steg resize -a wrote.
Hide ==
    /\ pc \in {"init", "fitted"}
    /\ \E auto_resize \in BOOLEAN :
       \E lib \in (IF auto_resize
                   THEN LibChoices(img, AvailableBytes(Len(wav.samples)))
                   ELSE {<<0, FALSE>>}) :
          LET r == HideImage(wav, img, auto_resize, lib[1], lib[2])
          IN  /\ hideRes' = [r EXCEPT !.out = <<>>] @@ [auto_resize |-> auto_resize]
              /\ stego' = IF r.kind = "ok"
                          THEN [wav EXCEPT !.samples = r.out]
                          ELSE stego
              /\ pc' = IF r.kind = "ok" THEN "hidden" ELSE "hide_failed"
    /\ UNCHANGED <<wav, img, capRes, fitRes, refitRes, extRes, extSrc, cmpImg, cmpRes>>

\* steg extract: extract_image(wav_path, output) on the input file or on
\* the file hide_image wrote.
Extract ==
    /\ pc \in {"init", "hidden"}
    /\ \E lib_rejects \in BOOLEAN :
          LET src == IF pc = "hidden" THEN stego ELSE wav
              r   == ExtractImage(src, lib_rejects)
          IN  /\ extRes' = r
              /\ extSrc' = IF pc = "hidden" THEN "stego" ELSE "wav"
              /\ pc' = IF r.kind = "ok" THEN "extracted" ELSE "extract_failed"
    /\ UNCHANGED <<wav, img, stego, capRes, fitRes, refitRes, hideRes, cmpImg, cmpRes>>

\* steg compare: compare_images(image1, image2) on the image that was
\* hidden and the extracted image or an edited copy of it.
Compare ==
    /\ pc = "extracted"
    /\ \E other \in CompareInputs(extRes.image) :
          /\ cmpImg' = other
          /\ cmpRes' = CompareImages(img, other)
    /\ pc' = "compared"
    /\ UNCHANGED <<wav, img, stego, capRes, fitRes, refitRes, hideRes, extRes, extSrc>>

Next == Capacity \/ ResizeBytes \/ ResizeAudio \/ Refit \/ Hide \/ Extract \/ Compare

Spec == Init /\ [][Next]_vars

\* ------------------------------------------------------------- claims
HideRan == hideRes.kind # "none"
FitRan == fitRes.kind # "none"
ExtractRan == extRes.kind # "none"
CompareRan == cmpRes.kind # "none"
\* The command that ran last.
HideJustRan == pc \in {"hidden", "hide_failed"}
ExtractJustRan == pc \in {"extracted", "extract_failed"}
\* The samples extract_image was given.
ExtSamples == IF extSrc = "stego" THEN stego.samples ELSE wav.samples

\* C1: round trip.  When hide_image ran without auto-resize on an image with
\* 1 <= width, height <= 10000 that fits ((12 + len(bytes)) * 8 <= len(samples)),
\* extract_image on its output succeeds and returns the same width, height
\* and byte sequence.
C1_RoundTrip ==
    (extSrc = "stego" /\ ~hideRes.auto_resize
       /\ hideRes.image.width \in 1..MAX_DIMENSION
       /\ hideRes.image.height \in 1..MAX_DIMENSION
       /\ (HEADER_BYTES + Len(hideRes.image.bytes)) * 8 <= Len(wav.samples))
    => /\ extRes.kind = "ok"
       /\ extRes.header.width = img.width
       /\ extRes.header.height = img.height
       /\ extRes.image = img
       /\ extRes.data = img.bytes

C1_Witness ==
    /\ extSrc = "stego"
    /\ ~hideRes.auto_resize
    /\ extRes.kind = "ok"
    /\ img.width = 2 /\ img.height = 2
    /\ wav.sampwidth = 4
    /\ \E i \in 1..Len(img.bytes) : img.bytes[i] \notin {0, 255}

\* C2: without auto-resize hide_image fails with the "image too large"
\* ValueError exactly when (12 + data_bytes) * 8 > len(samples), and succeeds
\* otherwise; a 100x100 image needs 240,096 samples: that many are enough,
\* one fewer is not.
C2_CapacityCheck ==
    /\ (HideRan /\ ~hideRes.auto_resize /\ SupportedWidth(wav.sampwidth))
       => LET need == (HEADER_BYTES + Len(img.bytes)) * 8
          IN  /\ need > Len(wav.samples)
                 => /\ hideRes.kind = "error"
                    /\ hideRes.err = [exc |-> "ValueError", site |-> "capacity_check"]
              /\ need <= Len(wav.samples) => hideRes.kind = "ok"
    /\ ~TooLarge((HEADER_BYTES + 100 * 100 * 3) * 8, 240096)
    /\ TooLarge((HEADER_BYTES + 100 * 100 * 3) * 8, 240095)

C2_Witness ==
    /\ HideRan /\ ~hideRes.auto_resize
    /\ hideRes.kind = "ok"
    /\ (HEADER_BYTES + Len(img.bytes)) * 8 = Len(wav.samples)

\* C3: the capacity get_audio_capacity reports agrees with the check of
\* hide_image: without auto-resize an image is accepted iff its data bytes
\* are at most capacity_bytes, and the image steg resize -a produced for
\* the same audio is accepted.
C3_CapacityAgrees ==
    (HideRan /\ ~hideRes.auto_resize /\ SupportedWidth(wav.sampwidth))
    => /\ hideRes.kind = "ok"
          <=> Len(img.bytes) <= GetAudioCapacity(wav).capacity_bytes
       /\ (pc \in {"hidden", "hide_failed"} /\ FitRan /\ fitRes.kind = "ok")
          => hideRes.kind = "ok"

C3_Witness ==
    /\ HideRan /\ ~hideRes.auto_resize
    /\ FitRan /\ fitRes.kind = "ok" /\ fitRes.resized
    /\ fitRes.final_size[1] >= 1 /\ fitRes.final_size[2] >= 1
    /\ hideRes.kind = "ok"

\* C4: fit budget satisfaction.  Whenever the resizer returns a result for
\* a budget max_bytes, final_width * final_height * 3 <= max_bytes, and the
\* image it returns has at most max_bytes bytes.
C4_FitWithinBudget ==
    /\ (FitRan /\ fitRes.kind = "ok")
       => /\ fitRes.final_size[1] * fitRes.final_size[2] * 3 <= fitRes.max_bytes
          /\ Len(fitRes.image.bytes) <= fitRes.max_bytes
    /\ (HideRan /\ hideRes.resized)
       => hideRes.image.width * hideRes.image.height * 3
             <= (Len(wav.samples) \div 8) - 12

C4_Witness ==
    /\ FitRan /\ fitRes.kind = "ok" /\ fitRes.resized
    /\ fitRes.original_size = <<2, 2>>
    /\ fitRes.final_size = <<1, 1>>
    /\ fitRes.max_bytes = 5

\* C5: fit idempotence.  Running the resizer again on its own result with
\* the same budget succeeds, reports resized = false and returns the same
\* image with the same dimensions.
C5_FitIdempotent ==
    (refitRes.kind # "none")
    => /\ refitRes.kind = "ok"
       /\ ~refitRes.resized
       /\ refitRes.final_size = fitRes.final_size
       /\ refitRes.image = fitRes.image

C5_Witness ==
    /\ refitRes.kind = "ok"
    /\ fitRes.resized
    /\ fitRes.final_size[1] >= 1 /\ fitRes.final_size[2] >= 1

C7_AutoFitSafe ==
    (HideRan /\ hideRes.auto_resize /\ SupportedWidth(wav.sampwidth))
    => /\ hideRes.kind = "ok"
          => /\ (HEADER_BYTES + Len(hideRes.image.bytes)) * 8 <= Len(wav.samples)
             /\ hideRes.written = (HEADER_BYTES + Len(hideRes.image.bytes)) * 8
       /\ hideRes.kind = "error" => hideRes.err.exc = "ValueError"
       /\ hideRes.written <= Len(wav.samples)

C7_Witness ==
    /\ HideRan /\ hideRes.auto_resize
    /\ hideRes.kind = "ok"
    /\ hideRes.resized
    /\ hideRes.image.width >= 1 /\ hideRes.image.height >= 1
    /\ Len(hideRes.image.bytes) < Len(img.bytes)

\* C8: capacity_bytes is floor(total_samples / 8) - 12: the one c with
\* 8 * (c + 12) <= total_samples < 8 * (c + 13); it is non-decreasing in
\* total_samples; below 96 samples it is reported negative, not as an
\* error; 441,000 samples give 55,113.
C8_Capacity ==
    /\ (capRes.kind # "none")
       => LET n == Len(wav.samples)
              c == capRes.capacity_bytes
          IN  /\ capRes.kind = "ok"
              /\ capRes.samples = n
              /\ 8 * (c + 12) <= n /\ n < 8 * (c + 13)
              /\ \A m \in 0..n : CapacityBytes(m) <= c
              /\ n < 96 => c < 0
    /\ CapacityBytes(441000) = 55113

C8_Witness ==
    /\ capRes.kind = "ok"
    /\ Len(wav.samples) = 95
    /\ capRes.capacity_bytes = -1

\* The header as the first 96 sample LSBs spell it, read without the
\* codec: field f (0 width, 1 height, 2 size) occupies samples
\* 32*f .. 32*f + 31, least significant bit first.
StreamBit(s, i) == s[i + 1] % 2
RECURSIVE StreamValue(_, _, _)
StreamValue(s, base, k) ==
    IF k = 0 THEN 0
    ELSE StreamValue(s, base, k - 1) + StreamBit(s, base + k - 1) * (2 ^ (k - 1))
FieldIsZero(s, f) == \A j \in 0..31 : StreamBit(s, 32 * f + j) = 0
\* 10000 < 2^14: the field exceeds 10000 iff a bit from 14 up is set or the
\* low 14 bits do.
FieldOverMax(s, f) ==
    \/ \E j \in 14..31 : StreamBit(s, 32 * f + j) = 1
    \/ StreamValue(s, 32 * f, 14) > 10000
StreamHeaderCorrupt(s) ==
    \/ FieldIsZero(s, 0) \/ FieldIsZero(s, 1) \/ FieldIsZero(s, 2)
    \/ FieldOverMax(s, 0) \/ FieldOverMax(s, 1)
\* Whether 96 + data_size * 8 > n for the size field of the stream.
StreamTruncated(s) ==
    \/ StreamBit(s, 95) = 1
    \/ StreamValue(s, 64, 31) > (Len(s) - 96) \div 8

\* C9: on a stream of at least 96 samples extract_image fails with
\* CorruptHeader exactly when the header its first 96 LSBs spell has
\* width = 0, height = 0, data_size = 0, width > 10000 or height > 10000;
\* it does so whatever the length, before any payload sample is read.
C9_CorruptHeader ==
    (ExtractRan /\ SupportedWidth(wav.sampwidth) /\ Len(ExtSamples) >= 96)
    => /\ (extRes.kind = "error" /\ extRes.err.site = "CorruptHeader")
          <=> StreamHeaderCorrupt(ExtSamples)
       /\ StreamHeaderCorrupt(ExtSamples)
          => /\ extRes.err.exc = "ValueError"
             /\ extRes.payload_reads = NoReads

C9_Witness ==
    /\ ExtractRan /\ extSrc = "wav"
    /\ extRes.kind = "error" /\ extRes.err.site = "CorruptHeader"
    /\ extRes.header = [width |-> 0, height |-> 1, img_size |-> 3]
    /\ Len(wav.samples) = 119

\* C10: on a stream whose header passes validation extract_image fails
\* with TruncatedStream exactly when 96 + data_size * 8 > len(samples);
\* otherwise (equality included) it reads the payload bits from sample
\* indices 96 .. 96 + data_size * 8 - 1 and from no other.
C10_Truncated ==
    (ExtractRan /\ SupportedWidth(wav.sampwidth) /\ Len(ExtSamples) >= 96
       /\ ~StreamHeaderCorrupt(ExtSamples))
    => /\ (extRes.kind = "error" /\ extRes.err.site = "TruncatedStream")
          <=> StreamTruncated(ExtSamples)
       /\ StreamTruncated(ExtSamples) => extRes.payload_reads = NoReads
       /\ ~StreamTruncated(ExtSamples)
          => /\ extRes.payload_reads =
                   [first |-> 96, last |-> 96 + StreamValue(ExtSamples, 64, 31) * 8 - 1]
             /\ extRes.payload_reads.last < Len(ExtSamples)
             /\ extRes.err.exc # "IndexError"

C10_Witness ==
    /\ ExtractRan /\ extSrc = "wav"
    /\ extRes.kind = "ok"
    /\ extRes.header = [width |-> 1, height |-> 1, img_size |-> 3]
    /\ Len(wav.samples) = 96 + 3 * 8
    /\ extRes.payload_reads = [first |-> 96, last |-> 119]

\* C11: a size mismatch is not fatal.  On a stream whose header passes
\* validation, with data_size # width * height * 3 and
\* 96 + data_size * 8 <= len(samples), extract_image does not fail: it
\* flags the mismatch and returns the header's width and height with
\* exactly data_size bytes read from the stream.
C11_SizeMismatchNonFatal ==
    (ExtractRan /\ SupportedWidth(wav.sampwidth) /\ Len(ExtSamples) >= 96
       /\ ~StreamHeaderCorrupt(ExtSamples) /\ ~StreamTruncated(ExtSamples)
       /\ StreamValue(ExtSamples, 64, 31)
            # StreamValue(ExtSamples, 0, 14) * StreamValue(ExtSamples, 32, 14) * 3)
    => /\ extRes.kind = "ok"
       /\ extRes.mismatch
       /\ extRes.header.width = StreamValue(ExtSamples, 0, 14)
       /\ extRes.header.height = StreamValue(ExtSamples, 32, 14)
       /\ Len(extRes.data) = StreamValue(ExtSamples, 64, 31)

\* C12: header round trip and layout.  The packed header is exactly 12
\* bytes holding width, height and size in that order, each as an unsigned
\* 32-bit little-endian value, and unpacking a packed header gives the three
\* values back, for every value in 0 .. 2^32 - 1.  Values are taken from the
\* image handed to hide_image, from the 12 header bytes extract_image decodes
\* from an input file (which reach 2^31 and above), from the header read back
\* from hide_image's output, and from the edges of the 16-bit halves.
HalfEdges == {0, 1, 255, 256, 32767, 32768, 65535}

FieldValue(b, f) ==
    b[4 * f + 1] + 256 * b[4 * f + 2] + 65536 * b[4 * f + 3] + 16777216 * b[4 * f + 4]

DecodedHeaderBytes ==
    LET samples == ExtSamples
        hread   == ReadBits(samples, 0, HEADER_BITS)
    IN  BitsToBytes(hread.bits)

C12_HeaderRoundTrip ==
    /\ (HideJustRan /\ SupportedWidth(wav.sampwidth)) =>
          LET b == PackHeader(img.width, img.height, Len(img.bytes))
          IN  /\ Len(b) = HEADER_BYTES
              /\ \A k \in 1..Len(b) : b[k] \in 0..255
              /\ FieldValue(b, 0) = img.width
              /\ FieldValue(b, 1) = img.height
              /\ FieldValue(b, 2) = Len(img.bytes)
              /\ UnpackHeader(b) = [width |-> img.width, height |-> img.height,
                                    img_size |-> Len(img.bytes)]
              /\ Pack32(img.width)
                   = Pack32Halves([hi |-> img.width \div 65536, lo |-> img.width % 65536])
    /\ (ExtractJustRan /\ extSrc = "wav" /\ SupportedWidth(wav.sampwidth)
          /\ Len(ExtSamples) >= HEADER_BITS) =>
          LET b == DecodedHeaderBytes
          IN
          \A f \in 0..2 :
             LET fb == SubSeq(b, 4 * f + 1, 4 * f + 4)
                 x  == Unpack32Halves(fb)
             IN  /\ x.hi \in 0..65535 /\ x.lo \in 0..65535
                 /\ Pack32Halves(x) = fb
                 /\ Unpack32Halves(Pack32Halves(x)) = x
                 /\ x.hi < 32768 =>
                       /\ Unpack32(fb) = x.hi * 65536 + x.lo
                       /\ Pack32(x.hi * 65536 + x.lo) = fb
                 /\ x.hi >= 32768 => Unpack32(fb) = IntMax
    /\ (ExtractJustRan /\ extSrc = "stego") =>
          extRes.header = [width |-> hideRes.image.width,
                           height |-> hideRes.image.height,
                           img_size |-> Len(hideRes.image.bytes)]
    /\ HideJustRan =>
          \A hi \in HalfEdges, lo \in HalfEdges :
             /\ Unpack32Halves(Pack32Halves([hi |-> hi, lo |-> lo])) = [hi |-> hi, lo |-> lo]
             /\ Len(Pack32Halves([hi |-> hi, lo |-> lo])) = 4

\* The header of a 1 x 2 image was packed, embedded, read back and unpacked.
C12_Witness ==
    /\ HideRan /\ hideRes.kind = "ok" /\ img.width = 1 /\ img.height = 2
    /\ ExtractRan /\ extSrc = "stego" /\ extRes.header.height = 2

\* A header field of 2^31 or more was decoded from a stream.
LargeFieldDecoded ==
    /\ ExtractRan /\ extSrc = "wav" /\ Len(ExtSamples) >= HEADER_BITS
    /\ Unpack32Halves(SubSeq(DecodedHeaderBytes, 1, 4)).hi >= 32768

\* C13: compare_images.  When the two images' dimensions differ the result
\* is identical = false, similarity = 0.  For equal dimensions
\* similarity = 100 * (total_pixels - differing_pixels) / total_pixels, where
\* a pixel differs if any of its 3 bytes differs, and identical = true
\* exactly when differing_pixels = 0; one changed channel byte in a 50 x 50
\* image gives 100 * 2499 / 2500 = 99.96.
DifferingPixels(a, b) ==
    Cardinality({p \in 1..(a.width * a.height) :
                    \E c \in 1..3 : a.bytes[3 * (p - 1) + c] # b.bytes[3 * (p - 1) + c]})

C13_Compare ==
    CompareRan =>
       /\ (img.width # cmpImg.width \/ img.height # cmpImg.height) =>
             /\ cmpRes.identical = FALSE
             /\ cmpRes.similarity.num = 0
       /\ (img.width = cmpImg.width /\ img.height = cmpImg.height) =>
             LET total == img.width * img.height
                 d     == DifferingPixels(img, cmpImg)
             IN  /\ cmpRes.similarity.num * total
                      = 100 * (total - d) * cmpRes.similarity.den
                 /\ cmpRes.similarity.den > 0
                 /\ cmpRes.identical <=> (d = 0)
       /\ Similarity(2500, 1).num * 100 = 9996 * Similarity(2500, 1).den

\* Two images of equal dimensions and more than one pixel were compared, and
\* two bytes of one pixel differ.
C13_Witness ==
    /\ CompareRan
    /\ img.width = cmpImg.width /\ img.height = cmpImg.height
    /\ img.width * img.height >= 2
    /\ img.bytes[1] # cmpImg.bytes[1] /\ img.bytes[2] # cmpImg.bytes[2]
    /\ DifferingPixels(img, cmpImg) = 1
    /\ ~cmpRes.identical

\* Images of different dimensions were compared.
DifferentDimensionsCompared ==
    CompareRan /\ (img.width # cmpImg.width \/ img.height # cmpImg.height)

\* C14: bit placement.  After a successful hide_image, for every bit index i
\* in 0 .. total_bits - 1 the least significant bit of output sample i is bit
\* (i mod 8) of byte floor(i / 8) of the header bytes followed by the payload
\* bytes: least significant bit first within each byte, the header in
\* samples 0..95, the payload from sample 96 on.
EmbeddedByte(im, k) ==
    IF k < 4 THEN (im.width \div (256 ^ k)) % 256
    ELSE IF k < 8 THEN (im.height \div (256 ^ (k - 4))) % 256
    ELSE IF k < 12 THEN (Len(im.bytes) \div (256 ^ (k - 8))) % 256
    ELSE im.bytes[k - 11]

C14_BitPlacement ==
    (HideJustRan /\ hideRes.kind = "ok") =>
       LET im         == hideRes.image
           total_bits == (12 + Len(im.bytes)) * 8
       IN  /\ hideRes.total_bits = total_bits
           /\ hideRes.written = total_bits
           /\ total_bits <= Len(stego.samples)
           /\ \A i \in 0..(total_bits - 1) :
                 stego.samples[i + 1] % 2
                    = (EmbeddedByte(im, i \div 8) \div (2 ^ (i % 8))) % 2

\* A 2 x 1 image with bytes 77, 154, ... was embedded in a carrier of
\* negative and positive samples: sample 96 carries bit 0 of 77 and
\* sample 98 bit 2 of 77.
C14_Witness ==
    /\ HideJustRan /\ hideRes.kind = "ok"
    /\ hideRes.image.width = 2 /\ hideRes.image.height = 1
    /\ hideRes.image.bytes[1] = 77
    /\ \E i \in 1..Len(wav.samples) : wav.samples[i] < 0
    /\ stego.samples[97] % 2 = 1
    /\ stego.samples[98] % 2 = 0
    /\ stego.samples[99] % 2 = 1

\* C15: frame of the embedding.  After a successful hide_image every output
\* sample at index >= total_bits equals the input sample, and every output
\* sample at index < total_bits differs from the input sample at most in
\* bit 0; so a sample keeps its sign, stays inside the range of its width and
\* moves by at most 1, negative samples and the range's ends included.
C15_EmbedFrame ==
    (HideJustRan /\ hideRes.kind = "ok") =>
       /\ Len(stego.samples) = Len(wav.samples)
       /\ stego.sampwidth = wav.sampwidth
       /\ \A i \in 1..Len(wav.samples) :
             LET old == wav.samples[i]
                 new == stego.samples[i]
             IN  /\ i > hideRes.total_bits => new = old
                 /\ i <= hideRes.total_bits =>
                       /\ new \div 2 = old \div 2
                       /\ (new < 0) <=> (old < 0)
                       /\ new >= SampleMin(wav.sampwidth)
                       /\ new <= SampleMax(wav.sampwidth)
                       /\ new \in {old - (old % 2), old - (old % 2) + 1}

\* An embedding changed the smallest and the largest 16-bit sample and left
\* the samples after total_bits.
C15_Witness ==
    /\ HideJustRan /\ hideRes.kind = "ok"
    /\ hideRes.total_bits < Len(wav.samples)
    /\ wav.sampwidth = 2
    /\ \E i \in 1..hideRes.total_bits :
          wav.samples[i] = SampleMin(2) /\ stego.samples[i] = SampleMin(2) + 1
    /\ \E i \in 1..hideRes.total_bits :
          wav.samples[i] = SampleMax(2) /\ stego.samples[i] = SampleMax(2) - 1

\* An embedding cleared bit 0 of a negative odd sample.
NegativeOddCleared ==
    /\ HideJustRan /\ hideRes.kind = "ok"
    /\ \E i \in 1..hideRes.total_bits :
          wav.samples[i] < 0 /\ wav.samples[i] % 2 = 1 /\ stego.samples[i] = wav.samples[i] - 1

\* An embedding changed the smallest and the largest 32-bit sample.
ExtremesChanged32 ==
    /\ HideJustRan /\ hideRes.kind = "ok" /\ wav.sampwidth = 4
    /\ \E i \in 1..hideRes.total_bits :
          wav.samples[i] = SampleMin(4) /\ stego.samples[i] = SampleMin(4) + 1
    /\ \E i \in 1..hideRes.total_bits :
          wav.samples[i] = SampleMax(4) /\ stego.samples[i] = SampleMax(4) - 1

\* C16: the correction loop of the fit terminates for every image with
\* width, height >= 1 and every integer max_bytes: it is entered only with
\* max_bytes >= 0, new_width only decreases, and the loop has stopped, with
\* its condition false, no later than new_width = 0, so new_width and
\* new_height are never negative.
LoopEnded(width, height, max_bytes) ==
    LET t == TargetDims(width, height, max_bytes)
    IN  IF t.kind = "error"
        THEN t.exc = "ValueError" /\ t.site = "math.sqrt" /\ max_bytes < 0
        ELSE /\ max_bytes >= 0
             /\ t.dims[1] >= 0 /\ t.dims[2] >= 0
             /\ t.dims[1] * t.dims[2] * 3 <= max_bytes
             /\ t.dims[1] <= width /\ t.dims[2] <= height

NegativeBudgetStopsBeforeLoop ==
    /\ pc = "fit_failed" /\ fitRes.max_bytes < 0
    /\ fitRes.err.site = "math.sqrt"

C18_ExtractTotal ==
    (ExtractJustRan /\ SupportedWidth(wav.sampwidth)) =>
       /\ \/ extRes.kind = "ok"
          \/ extRes.err.site \in {"CorruptHeader", "TruncatedStream"}
       /\ extRes.err.exc # "IndexError"
       /\ extRes.header_reads.last < Len(ExtSamples)
       /\ extRes.payload_reads.last < Len(ExtSamples)

====
